---------------------------- MODULE Spec2Model ----------------------------
(***************************************************************************)
(* The aha-ggregator pipeline: scraper.py (Collector), classify.py         *)
(* (Classifier) and generate_html.py (Renderer), chained by three          *)
(* append-only JSONL files.  A log file is modelled as the sequence of the *)
(* records of its lines.  The external sources and the classification      *)
(* oracle are the environment: what they return is chosen with \E.         *)
(***************************************************************************)
EXTENDS Integers, Sequences, FiniteSets, TLC

(***************************************************************************)
(* Bounds of the model.                                                    *)
(***************************************************************************)
NumUrls == 2            \* distinct urls the sources can return: 1..NumUrls
MaxBatch == 2           \* posts fetched in one scrape_all run
NumFetches == 2         \* source fetches of one scrape_all run
MaxClassified == 3      \* classify_all starts while the classified log is shorter
MaxInput == 3           \* length of the input a function is applied to on its own

(***************************************************************************)
(* Program constants.                                                      *)
(***************************************************************************)
DefaultMinConfidence == 60      \* classify_all(min_confidence: int = 60)
DefaultMinScore == 5            \* classify_all(min_score: int = 5)
TopPatterns == 5                \* realization_words.most_common(5)

URLs == 1..NumUrls
NoUrl == 0                      \* the oracle's object has no "url" key
Scores == {2, 5}                \* below / at the engagement floor
Confidences == {30, 60, 80}     \* below / at / above the confidence floor

(***************************************************************************)
(* A RawItem as scraper.py builds it; url and score are the fields the     *)
(* pipeline's control flow reads.                                          *)
(***************************************************************************)
Posts == [url : URLs, score : Scores]

(***************************************************************************)
(* A line of a log file that is not the record of a JSON object: text      *)
(* json.loads rejects (a torn or hand-edited line), or JSON text of a      *)
(* value that is no object (null, 7, "x", [1]).                            *)
(***************************************************************************)
Unparseable == [line |-> "unparseable"]
NonObject == [line |-> "non_object"]

(***************************************************************************)
(* What one oracle request can come back with.  kind:                      *)
(*   api_error     client.messages.create (or reading its content) raises  *)
(*   invalid_json  the unwrapped text is not JSON                          *)
(*   falsy_json    JSON null, false, 0, "" or []                           *)
(*   empty_object  the JSON object {}                                      *)
(*   non_object    any other JSON value that is not an object: [1], 7, "x" *)
(*   object        a JSON object with at least one key                     *)
(* For an object: is_valid is the value of "is_valid_aha_moment" ("absent" *)
(* when the key is missing); conf_type says whether "confidence" is a      *)
(* number, missing, or a value of another type; url is the value of a      *)
(* "url" key of the oracle's object, NoUrl when it has none.               *)
(***************************************************************************)
Blank(k) ==
    [kind |-> k, is_valid |-> "absent", conf_type |-> "absent",
     confidence |-> 0, url |-> NoUrl]

None == Blank("None")

Object(v, t, c, u) ==
    [kind |-> "object", is_valid |-> v, conf_type |-> t, confidence |-> c,
     url |-> u]

\* The objects tried: accepted at and above the floor, rejected by either
\* criterion, keys missing, a confidence that is no number, and objects
\* that carry a "url" key of their own.
OracleObjects ==
    {Object("true", "number", c, NoUrl) : c \in Confidences}
    \cup {Object("true", "number", 60, u) : u \in URLs}
    \cup {Object("false", "number", 80, NoUrl),
          Object("absent", "number", 80, NoUrl),
          Object("true", "absent", 0, NoUrl),
          Object("true", "other", 0, NoUrl)}

OracleResponses ==
    {Blank(k) : k \in {"api_error", "invalid_json", "falsy_json",
                       "empty_object", "non_object"}}
    \cup OracleObjects

VARIABLES
    raw,                \* data/aha_moments_raw.jsonl
    classified,         \* data/aha_moments_classified.jsonl
    accepted,           \* data/aha_moments.jsonl
    html,               \* index.html: the moments rendered, in card order
    analysis,           \* index.html: the analysis its header and insights
                        \* panel are rendered from
    pc,                 \* where the running process is
    existing_urls,      \* scrape_all: urls loaded from the raw log
    all_posts,          \* scrape_all: posts fetched so far
    fetches,            \* scrape_all: source fetches done so far
    fetch_log,          \* history: per fetch of the run, how it ended and
                        \* the posts it returned
    classified_urls,    \* classify_all: urls loaded from the classified log
    posts_to_classify,  \* classify_all: the pending posts
    i,                  \* classify_all: 1-based position in posts_to_classify
    response,           \* classify_post: what the oracle last came back with
    valid_moments,      \* classify_all: accepted moments of this run
    slept,              \* history: time.sleep(0.5) has run since the run's
                        \* last oracle request (TRUE before the first)
    returned,           \* return value of the last completed operation
    oracleCalls,        \* history: per url, oracle requests so far (see Count)
    run_start,          \* history: log lengths when classify_all last started
    run_calls           \* history: urls submitted by the current run, in order

vars == <<raw, classified, accepted, html, analysis, pc, existing_urls, all_posts,
          fetches, fetch_log,
          classified_urls, posts_to_classify, i, response, valid_moments,
          slept, returned, oracleCalls, run_start, run_calls>>

logs == <<raw, classified, accepted>>
page == <<html, analysis>>
scrape_locals == <<existing_urls, all_posts, fetches, fetch_log>>
classify_locals == <<classified_urls, posts_to_classify, i, response,
                     valid_moments, slept>>

(***************************************************************************)
(* Sequence helpers.                                                       *)
(***************************************************************************)
UrlsOf(s) == {s[k].url : k \in DOMAIN s}

IsPrefix(s, t) == Len(s) <= Len(t) /\ SubSeq(t, 1, Len(s)) = s

Suffix(s, n) == SubSeq(s, n + 1, Len(s))

RECURSIVE SeqsUpTo(_, _)
SeqsUpTo(S, n) ==
    IF n = 0 THEN {<<>>}
    ELSE SeqsUpTo(S, n - 1) \cup
         {Append(s, x) : s \in {t \in SeqsUpTo(S, n - 1) : Len(t) = n - 1},
                         x \in S}

\* What the fetches of one scrape_all run can return, concatenated.
Batches == SeqsUpTo(Posts, MaxBatch)

(***************************************************************************)
(* open(file, "a") followed by one write per record.                       *)
(***************************************************************************)
AppendLinesOverwrite(log, records) == records

AppendLines(log, records) == log \o records

(***************************************************************************)
(* scraper.py                                                              *)
(***************************************************************************)
RECURSIVE DedupFrom(_, _, _)
DedupFrom(posts, k, seen_urls) ==
    IF k > Len(posts) THEN <<>>
    ELSE IF posts[k].url # NoUrl /\ posts[k].url \notin seen_urls
         THEN <<posts[k]>> \o DedupFrom(posts, k + 1,
                                         seen_urls \cup {posts[k].url})
         ELSE DedupFrom(posts, k + 1, seen_urls)

\* Keeps the last record of every url instead of the first.
deduplicate_postsKeepLast(posts) ==
    LET Rev(q) == [k \in 1..Len(q) |-> q[Len(q) + 1 - k]]
    IN Rev(DedupFrom(Rev(posts), 1, {}))

\* `if url and url not in seen_urls`: every url scraper.py builds is a
\* non-empty string, so on fetched posts only the second test decides.
deduplicate_posts(posts) == DedupFrom(posts, 1, {})

\* try: json.loads(line) / except json.JSONDecodeError: continue -- the
\* lines a reader gets a value from.
JsonLines(log) == SelectSeq(log, LAMBDA l : l # Unparseable)

\* item.get(...) on a parsed value that is no dict raises AttributeError,
\* which no reader catches.
GetRaises(log) == \E k \in DOMAIN log : log[k] = NonObject

load_existing_urlsNone(data_file) == {}

load_existing_urls(data_file) == UrlsOf(JsonLines(data_file))

FilterNew(posts, urls) ==
    SelectSeq(posts, LAMBDA p : p.url \notin urls)

(***************************************************************************)
(* classify.py                                                             *)
(***************************************************************************)
(***************************************************************************)
(* classify_post, lines 70-81, on the text of a response.  A text is a     *)
(* sequence of pieces:                                                     *)
(*   "fence"  three backticks                                              *)
(*   "json"   the letters json                                             *)
(*   "ws"     white space (blanks, newlines)                               *)
(*   "obj"    the text of a JSON object with none of the above in it       *)
(*   "open"   the start of a JSON object up to the inside of a string      *)
(*   "close"  the end of that string and of the object                     *)
(* so that <<"open", "fence", "close">> is an object one of whose string   *)
(* values holds a fence.                                                   *)
(***************************************************************************)
RECURSIVE lstrip(_)
lstrip(text) ==
    IF text # <<>> /\ Head(text) = "ws" THEN lstrip(Tail(text)) ELSE text

RECURSIVE rstrip(_)
rstrip(text) ==
    IF text # <<>> /\ text[Len(text)] = "ws"
    THEN rstrip(SubSeq(text, 1, Len(text) - 1)) ELSE text

\* str.strip()
strip(text) == rstrip(lstrip(text))

\* text.split("```")[1] for a text that starts with a fence: what stands
\* between that fence and the next one (or the end).
RECURSIVE UpToFence(_)
UpToFence(text) ==
    IF text = <<>> \/ Head(text) = "fence" THEN <<>>
    ELSE <<Head(text)>> \o UpToFence(Tail(text))

split_1(text) == UpToFence(Tail(text))

\* lines 71-78: the text handed to json.loads.
response_text(text) ==
    LET stripped == strip(text)
    IN IF stripped # <<>> /\ Head(stripped) = "fence"
       THEN LET inner == split_1(stripped)
            IN strip(IF inner # <<>> /\ Head(inner) = "json"
                     THEN Tail(inner) ELSE inner)
       ELSE stripped

\* json.loads accepts the text of one JSON value, white space around it
\* allowed; a string may hold anything but the pieces that end it.
IsJson(text) ==
    LET t == strip(text)
    IN \/ t = <<"obj">>
       \/ /\ Len(t) >= 2
          /\ t[1] = "open"
          /\ t[Len(t)] = "close"
          /\ \A k \in 2..(Len(t) - 1) : t[k] \in {"fence", "json", "ws"}

\* json.loads(text): the object is told by the text of its value.
json_loads(text) == [kind |-> "object", value |-> strip(text)]

\* lines 70-86: the parsed object, or None on json.JSONDecodeError.
parse_response(text) ==
    LET unwrapped == response_text(text)
    IN IF IsJson(unwrapped) THEN json_loads(unwrapped) ELSE None

\* classify_post: None on any exception, else the parsed JSON value.
classify_postReturnsText(resp) ==
    IF resp.kind = "api_error" THEN None
    ELSE IF resp.kind = "invalid_json" THEN Blank("non_object")
    ELSE resp

classify_post(resp) ==
    IF resp.kind \in {"api_error", "invalid_json"} THEN None ELSE resp

\* `if result:` -- None, null, false, 0, "", [] and {} are all falsy.
Truthy(result) == result.kind \in {"object", "non_object"}

\* `**result` needs a mapping; anything else raises TypeError.
IsMapping(result) == result.kind \in {"object", "empty_object"}

\* {**post, **result, "classified_at": ...}: result's keys win over post's.
Merge(post, result) ==
    [url |-> IF result.url # NoUrl THEN result.url ELSE post.url,
     score |-> post.score, is_valid |-> result.is_valid,
     conf_type |-> result.conf_type, confidence |-> result.confidence]

\* result.get("confidence", 0)
ConfidenceOf(result) ==
    IF result.conf_type = "number" THEN result.confidence ELSE 0

\* result.get("is_valid_aha_moment") and result.get("confidence", 0) >= min:
\* the comparison is evaluated only when the flag is truthy, and raises
\* TypeError when the confidence is not a number.
AcceptRaises(result) ==
    result.is_valid = "true" /\ result.conf_type = "other"

AcceptStrict(result, min_confidence) ==
    result.is_valid = "true" /\ ConfidenceOf(result) > min_confidence

AcceptAnyValid(result, min_confidence) == result.is_valid = "true"

Accept(result, min_confidence) ==
    result.is_valid = "true" /\ ConfidenceOf(result) >= min_confidence

\* post.get("score", 0) < min_score
LowScoreFlipped(post, min_score) == post.score > min_score

LowScore(post, min_score) == post.score < min_score

PendingAll(raw_file, urls) == raw_file

\* The pending posts, last line of the raw log first.
PendingReversed(raw_file, urls) ==
    LET p == FilterNew(raw_file, urls)
    IN [k \in 1..Len(p) |-> p[Len(p) + 1 - k]]

Pending(raw_file, urls) == FilterNew(raw_file, urls)

(***************************************************************************)
(* generate_html.py                                                        *)
(***************************************************************************)
\* x.get("curated", False), as the integer Python compares it as.  No step
\* of the pipeline writes a "curated" key: it is added to a line by hand.
CuratedOf(m) == IF "curated" \in DOMAIN m /\ m.curated THEN 1 ELSE 0

\* key=lambda x: (x.get("curated", False), x.get("confidence", 0))
SortKey(m) == <<CuratedOf(m), ConfidenceOf(m)>>

KeyAbove(a, b) == a[1] > b[1] \/ (a[1] = b[1] /\ a[2] > b[2])

\* Tuples compare item by item: a >= b.
KeyAtLeast(a, b) == a[1] > b[1] \/ (a[1] = b[1] /\ a[2] >= b[2])

\* list.sort is stable, also with reverse=True: m goes after every moment
\* whose key is at least its own.
RECURSIVE InsertSorted(_, _)
InsertSorted(sorted, m) ==
    IF sorted = <<>> THEN <<m>>
    ELSE IF KeyAtLeast(SortKey(Head(sorted)), SortKey(m))
         THEN <<Head(sorted)>> \o InsertSorted(Tail(sorted), m)
         ELSE <<m>> \o sorted

RECURSIVE SortMoments(_, _)
SortMoments(moments, k) ==
    IF k = 0 THEN <<>>
    ELSE InsertSorted(SortMoments(moments, k - 1), moments[k])

load_moments(moments_file) ==
    LET moments == JsonLines(moments_file)
    IN SortMoments(moments, Len(moments))

(***************************************************************************)
(* The fields of a moment that the page is built from are keys a record    *)
(* has or lacks.  Their values, as json.loads gives them: None for JSON    *)
(* null, a string, a list.  A text is held as the set of the phrases of    *)
(* Phrases that occur in it, which is all analyze_patterns asks of it.     *)
(***************************************************************************)
Null == [t |-> "null"]
Str(s) == [t |-> "str", v |-> s]
Text(phrases) == [t |-> "str", v |-> phrases]
List(seq) == [t |-> "list", v |-> seq]

\* m.get(key, default)
Get(m, key, default) == IF key \in DOMAIN m THEN m[key] ELSE default

Phrases ==
    <<"conversation", "dialogue", "partner", "thinking", "first-try",
      "accuracy", "trust", "time", "speed", "document", "pdf">>

\* Counter(values): each value that occurs, with how often it occurs.
Counter(values) ==
    [x \in {values[k] : k \in DOMAIN values} |->
        Cardinality({k \in DOMAIN values : values[k] = x})]

\* The keys of a Counter in the order in which they were first counted.
RECURSIVE FirstCounted(_, _)
FirstCounted(values, seen) ==
    IF values = <<>> THEN <<>>
    ELSE IF Head(values) \in seen THEN FirstCounted(Tail(values), seen)
    ELSE <<Head(values)>>
         \o FirstCounted(Tail(values), seen \cup {Head(values)})

\* sorted(items, key=count, reverse=True): stable, ties stay in the order
\* in which the keys were first counted.
RECURSIVE ByCount(_, _)
ByCount(keys, counter) ==
    IF keys = <<>> THEN <<>>
    ELSE LET rest == ByCount(SubSeq(keys, 1, Len(keys) - 1), counter)
             x == keys[Len(keys)]
             before == SelectSeq(rest, LAMBDA y : counter[y] >= counter[x])
             after == SelectSeq(rest, LAMBDA y : counter[y] < counter[x])
         IN before \o <<x>> \o after

most_commonAll(values, n) ==
    LET counter == Counter(values)
        sorted == ByCount(FirstCounted(values, {}), counter)
    IN [k \in DOMAIN sorted |-> <<sorted[k], counter[sorted[k]]>>]

\* Counter(values).most_common(n): the n first of the items by count.
most_common(values, n) ==
    LET counter == Counter(values)
        sorted == ByCount(FirstCounted(values, {}), counter)
        top == SubSeq(sorted, 1, IF Len(sorted) < n THEN Len(sorted) ELSE n)
    IN [k \in DOMAIN top |-> <<top[k], counter[top[k]]>>]

\* lines 34-38: one count per moment and phrase that occurs in its
\* realization, moments in order, phrases in the order of the list.
RECURSIVE PhraseHits(_)
PhraseHits(moments) ==
    IF moments = <<>> THEN <<>>
    ELSE SelectSeq(Phrases,
             LAMBDA q : q \in Get(Head(moments), "realization", Text({})).v)
         \o PhraseHits(Tail(moments))

\* lines 44-46: one count per element of each moment's growth_levers.
RECURSIVE LeverHits(_)
LeverHits(moments) ==
    IF moments = <<>> THEN <<>>
    ELSE Get(Head(moments), "growth_levers", List(<<>>)).v
         \o LeverHits(Tail(moments))

\* None.lower() (line 35) and `for lever in None` (line 45) raise.
analyze_patternsRaises(moments) ==
    \E k \in DOMAIN moments :
        \/ Get(moments[k], "realization", Text({})) = Null
        \/ Get(moments[k], "growth_levers", List(<<>>)) = Null

analyze_patterns(moments) ==
    [patterns |-> most_common(PhraseHits(moments), TopPatterns),
     layers |-> Counter([k \in DOMAIN moments |->
                           Get(moments[k], "layer", Str("unknown"))]),
     levers |-> Counter(LeverHits(moments)),
     tools |-> Counter([k \in DOMAIN moments |->
                          Get(moments[k], "ai_tool", Str("Unknown"))]),
     total |-> Len(moments)]

\* generate_card_html: escape(None) raises for the texts it escapes ("quote"
\* stands for use_case, quote, url, provocation and source alike), so do
\* None.title() for the layer and the loop over None for the levers.
generate_card_htmlRaises(moment) ==
    \/ Get(moment, "layer", Str("wow")) = Null
    \/ Get(moment, "ai_tool", Str("General")) = Null
    \/ Get(moment, "quote", Str("")) = Null
    \/ Get(moment, "realization", Text({})) = Null
    \/ Get(moment, "growth_levers", List(<<>>)) = Null

\* generate_html, lines 169-171.
generate_htmlRaises(moments) ==
    \/ analyze_patternsRaises(moments)
    \/ \E k \in DOMAIN moments : generate_card_htmlRaises(moments[k])

(***************************************************************************)
(* The state machine.  One process runs at a time (scraper.py, classify.py *)
(* and generate_html.py each have a __main__); a new one starts only when  *)
(* the previous one has returned or died.                                  *)
(***************************************************************************)
Terminal == {"idle", "scrape_done", "classify_done", "render_done", "crashed"}

NoResponse == Blank("none")

NotStarted == [classified |-> 0, accepted |-> 0]

\* The request history counts 0, 1, "more than once".
Count(n) == IF n >= 2 THEN 2 ELSE n

\* A process about to start on the given log files, with `fetched` and the
\* oracle's answer `resp` at hand.
InitAll(rawLog, classifiedLog, acceptedLog, fetched, resp) ==
    /\ raw = rawLog
    /\ classified = classifiedLog
    /\ accepted = acceptedLog
    /\ html = <<>>
    /\ analysis = analyze_patterns(<<>>)
    /\ pc = "idle"
    /\ existing_urls = {}
    /\ all_posts = fetched
    /\ fetches = 0
    /\ fetch_log = <<>>
    /\ classified_urls = {}
    /\ posts_to_classify = <<>>
    /\ i = 0
    /\ response = resp
    /\ valid_moments = <<>>
    /\ slept = TRUE
    /\ returned = <<>>
    /\ oracleCalls = [u \in URLs |-> 0]
    /\ run_start = NotStarted
    /\ run_calls = <<>>

\* A process about to start on the given log files, with `fetched` at hand.
InitWith(rawLog, classifiedLog, acceptedLog, fetched) ==
    /\ raw = rawLog
    /\ classified = classifiedLog
    /\ accepted = acceptedLog
    /\ html = <<>>
    /\ analysis = analyze_patterns(<<>>)
    /\ pc = "idle"
    /\ existing_urls = {}
    /\ all_posts = fetched
    /\ fetches = 0
    /\ fetch_log = <<>>
    /\ classified_urls = {}
    /\ posts_to_classify = <<>>
    /\ i = 0
    /\ response = NoResponse
    /\ valid_moments = <<>>
    /\ slept = TRUE
    /\ returned = <<>>
    /\ oracleCalls = [u \in URLs |-> 0]
    /\ run_start = NotStarted
    /\ run_calls = <<>>

Init ==
    /\ raw = <<>>
    /\ classified = <<>>
    /\ accepted = <<>>
    /\ html = <<>>
    /\ analysis = analyze_patterns(<<>>)
    /\ pc = "idle"
    /\ existing_urls = {}
    /\ all_posts = <<>>
    /\ fetches = 0
    /\ fetch_log = <<>>
    /\ classified_urls = {}
    /\ posts_to_classify = <<>>
    /\ i = 0
    /\ response = NoResponse
    /\ valid_moments = <<>>
    /\ slept = TRUE
    /\ returned = <<>>
    /\ oracleCalls = [u \in URLs |-> 0]
    /\ run_start = NotStarted
    /\ run_calls = <<>>

StartRun ==
    run_start' = [classified |-> Len(classified), accepted |-> Len(accepted)]

ClassifyIdle ==
    /\ classified_urls' = {}
    /\ posts_to_classify' = <<>>
    /\ i' = 0
    /\ response' = NoResponse
    /\ valid_moments' = <<>>
    /\ slept' = TRUE

---------------------------------------------------------------------------
\* scrape_all, lines 322-329: load the urls of the raw log.
ScrapeStart ==
    /\ pc \in Terminal
    /\ IF GetRaises(raw)
       THEN /\ pc' = "crashed"
            /\ existing_urls' = {}
       ELSE /\ pc' = "fetch"
            /\ existing_urls' = load_existing_urls(raw)
    /\ all_posts' = <<>>
    /\ fetches' = 0
    /\ fetch_log' = <<>>
    /\ returned' = <<>>
    /\ run_start' = NotStarted
    /\ run_calls' = <<>>
    /\ UNCHANGED <<logs, page, classify_locals, oracleCalls>>

\* One source fetch that succeeds: its posts extend all_posts.
FetchOk ==
    /\ pc = "fetch"
    /\ fetches < NumFetches
    /\ \E posts \in SeqsUpTo(Posts, MaxBatch - Len(all_posts)) :
          /\ all_posts' = all_posts \o posts
          /\ fetch_log' = Append(fetch_log, [ok |-> TRUE, posts |-> posts])
    /\ fetches' = fetches + 1
    /\ UNCHANGED <<logs, page, pc, existing_urls, classify_locals, returned,
                   oracleCalls, run_start, run_calls>>

FetchFailAborts ==
    /\ pc = "fetch"
    /\ fetches < NumFetches
    /\ pc' = "crashed"
    /\ UNCHANGED <<logs, page, scrape_locals, classify_locals, returned,
                   oracleCalls, run_start, run_calls>>

\* One source fetch that raises: the exception is caught in the fetch
\* function, which returns `posts` as it stands: empty when the request or
\* the decoding failed, the posts built so far when an element of the
\* listing made the loop raise.
FetchFail ==
    /\ pc = "fetch"
    /\ fetches < NumFetches
    /\ \E posts \in SeqsUpTo(Posts, MaxBatch - Len(all_posts)) :
          /\ all_posts' = all_posts \o posts
          /\ fetch_log' = Append(fetch_log, [ok |-> FALSE, posts |-> posts])
    /\ fetches' = fetches + 1
    /\ UNCHANGED <<logs, page, pc, existing_urls, classify_locals,
                   returned, oracleCalls, run_start, run_calls>>

\* scrape_all, lines 356-372: deduplicate, drop the known urls, append.
\* all_posts is kept until the next run starts.
ScrapeFinish ==
    /\ pc = "fetch"
    /\ fetches = NumFetches
    /\ LET new_posts == FilterNew(deduplicate_posts(all_posts), existing_urls)
       IN /\ raw' = IF new_posts # <<>> THEN AppendLines(raw, new_posts)
                    ELSE raw
          /\ returned' = new_posts
    /\ pc' = "scrape_done"
    /\ UNCHANGED <<classified, accepted, page, scrape_locals,
                   classify_locals, oracleCalls, run_start, run_calls>>

\* scrape_all as one step of the pipeline: `fetched` is what the fetches
\* returned, in order.
scrape_all ==
    /\ pc \in Terminal
    /\ IF GetRaises(raw)
       THEN /\ pc' = "crashed"
            /\ UNCHANGED <<raw, returned>>
       ELSE /\ \E fetched \in Batches :
                LET new_posts == FilterNew(deduplicate_posts(fetched),
                                           load_existing_urls(raw))
                IN /\ raw' = IF new_posts # <<>>
                             THEN AppendLines(raw, new_posts) ELSE raw
                   /\ returned' = new_posts
            /\ pc' = "scrape_done"
    /\ run_start' = NotStarted
    /\ run_calls' = <<>>
    /\ UNCHANGED <<classified, accepted, page, scrape_locals,
                   classify_locals, oracleCalls>>

---------------------------------------------------------------------------
\* The process dies with an uncaught exception: its locals are gone.
Crash ==
    /\ pc' = "crashed"
    /\ ClassifyIdle

\* classify_all, lines 98-135: early returns, load both logs.
ClassifyStart ==
    /\ pc \in Terminal
    /\ Len(classified) < MaxClassified
    /\ run_calls' = <<>>
    /\ StartRun
    /\ returned' = <<>>
    /\ IF raw = <<>>
       THEN /\ pc' = "classify_done"
            /\ ClassifyIdle
       ELSE IF GetRaises(classified) \/ GetRaises(raw)
       THEN Crash
       ELSE LET urls == UrlsOf(JsonLines(classified))
                pending == Pending(JsonLines(raw), urls)
            IN IF pending = <<>>
               THEN /\ pc' = "classify_done"
                    /\ ClassifyIdle
               ELSE /\ pc' = "loop"
                    /\ classified_urls' = urls
                    /\ posts_to_classify' = pending
                    /\ i' = 1
                    /\ response' = NoResponse
                    /\ valid_moments' = <<>>
                    /\ slept' = TRUE
    /\ UNCHANGED <<logs, page, scrape_locals, oracleCalls>>

\* lines 140-143: a low-engagement post is skipped with `continue`.
SkipLowScore ==
    /\ pc = "loop"
    /\ i <= Len(posts_to_classify)
    /\ LowScore(posts_to_classify[i], DefaultMinScore)
    /\ i' = i + 1
    /\ UNCHANGED <<logs, page, pc, scrape_locals, classified_urls,
                   posts_to_classify, response, valid_moments, slept,
                   returned, oracleCalls, run_start, run_calls>>

\* line 145 / classify_post lines 54-68: one request to the oracle.
CallOracle ==
    /\ pc = "loop"
    /\ i <= Len(posts_to_classify)
    /\ ~LowScore(posts_to_classify[i], DefaultMinScore)
    /\ \E resp \in OracleResponses : response' = resp
    /\ LET u == posts_to_classify[i].url
       IN /\ oracleCalls' = [oracleCalls EXCEPT ![u] = Count(@ + 1)]
          /\ run_calls' = Append(run_calls, u)
    /\ pc' = "handle"
    /\ slept' = FALSE
    /\ UNCHANGED <<logs, page, scrape_locals, classified_urls,
                   posts_to_classify, i, valid_moments, returned, run_start>>

SleepSkipped == slept' = slept

\* lines 166-167: time.sleep(0.5), the last statement of the loop body.
Sleep == slept' = TRUE

\* classify_post lines 70-89 and classify_all lines 147-167.
HandleResult ==
    /\ pc = "handle"
    /\ LET post == posts_to_classify[i]
           result == classify_post(response)
           merged == Merge(post, result)
       IN IF ~Truthy(result)
          THEN /\ Sleep
               /\ i' = i + 1
               /\ pc' = "loop"
               /\ UNCHANGED <<classified, classified_urls, posts_to_classify,
                              response, valid_moments>>
          ELSE IF ~IsMapping(result)
          THEN /\ Crash
               /\ UNCHANGED classified
          ELSE /\ classified' = AppendLines(classified, <<merged>>)
               /\ IF AcceptRaises(result)
                  THEN Crash
                  ELSE /\ valid_moments' =
                            IF Accept(result, DefaultMinConfidence)
                            THEN Append(valid_moments, merged)
                            ELSE valid_moments
                       /\ Sleep
                       /\ i' = i + 1
                       /\ pc' = "loop"
                       /\ UNCHANGED <<classified_urls, posts_to_classify,
                                      response>>
    /\ UNCHANGED <<raw, accepted, page, scrape_locals, returned, oracleCalls,
                   run_start, run_calls>>

\* lines 169-176: append the run's valid moments, return them.
ClassifyFinish ==
    /\ pc = "loop"
    /\ i > Len(posts_to_classify)
    /\ accepted' = IF valid_moments # <<>>
                   THEN AppendLines(accepted, valid_moments)
                   ELSE accepted
    /\ returned' = valid_moments
    /\ pc' = "classify_done"
    /\ ClassifyIdle
    /\ UNCHANGED <<raw, classified, page, scrape_locals, oracleCalls,
                   run_start, run_calls>>

---------------------------------------------------------------------------
\* load_moments, then generate_html: the page is written at the end, when
\* everything on it has been built.
RenderPage ==
    IF GetRaises(accepted)
    THEN /\ pc' = "crashed"
         /\ UNCHANGED page
    ELSE LET moments == load_moments(accepted)
         IN IF generate_htmlRaises(moments)
            THEN /\ pc' = "crashed"
                 /\ UNCHANGED page
            ELSE /\ pc' = "render_done"
                 /\ html' = moments
                 /\ analysis' = analyze_patterns(moments)

\* Reads the accepted log with the file opened for writing.
RenderTruncates ==
    /\ pc \in Terminal
    /\ pc' = "render_done"
    /\ accepted' = <<>>
    /\ html' = <<>>
    /\ analysis' = analyze_patterns(<<>>)
    /\ returned' = <<>>
    /\ run_start' = NotStarted
    /\ run_calls' = <<>>
    /\ UNCHANGED <<raw, classified, scrape_locals, classify_locals,
                   oracleCalls>>

\* generate_html.py __main__: load_moments, then generate_html writes
\* index.html (opened with "w").
Render ==
    /\ pc \in Terminal
    /\ RenderPage
    /\ returned' = <<>>
    /\ run_start' = NotStarted
    /\ run_calls' = <<>>
    /\ UNCHANGED <<logs, scrape_locals, classify_locals, oracleCalls>>

Next ==
    \/ scrape_all
    \/ ClassifyStart
    \/ SkipLowScore
    \/ CallOracle
    \/ HandleResult
    \/ ClassifyFinish
    \/ Render

Spec == Init /\ [][Next]_vars

\* The Collector alone, fetch by fetch.
CollectNext ==
    \/ ScrapeStart
    \/ FetchOk
    \/ FetchFail
    \/ ScrapeFinish

SpecCollect == Init /\ [][CollectNext]_vars

---------------------------------------------------------------------------
(***************************************************************************)
(* The pipeline with a classify_all run that can be stopped from outside   *)
(* between two steps of its loop: the operator's Ctrl-C (KeyboardInterrupt *)
(* is no Exception, so classify_post does not catch it), a kill, a power   *)
(* cut.                                                                    *)
(***************************************************************************)
Interrupt ==
    /\ pc \in {"loop", "handle"}
    /\ Crash
    /\ UNCHANGED <<logs, page, scrape_locals, returned, oracleCalls,
                   run_start, run_calls>>

InterruptNext ==
    \/ Next
    \/ Interrupt

SpecInterrupt == Init /\ [][InterruptNext]_vars

---------------------------------------------------------------------------
(***************************************************************************)
(* collect.py: main() runs the three stages in one process.  An uncaught   *)
(* exception in a stage ends the process; the operator then invokes main() *)
(* again.                                                                  *)
(***************************************************************************)
\* lines 17-21: new_posts = scrape_all()
DriverScrape ==
    /\ pc \in {"idle", "render_done", "crashed"}
    /\ scrape_all

\* lines 26-28: `if new_posts:` new_moments = classify_all()
DriverClassify ==
    /\ pc = "scrape_done"
    /\ returned # <<>>
    /\ ClassifyStart

\* lines 29-30: no new posts, classify_all is not called.
DriverSkipClassify ==
    /\ pc = "scrape_done"
    /\ returned = <<>>
    /\ pc' = "classify_skipped"
    /\ UNCHANGED <<logs, page, scrape_locals, classify_locals, returned,
                   oracleCalls, run_start, run_calls>>

\* lines 32-36: moments = load_moments(); generate_html(moments)
DriverRender ==
    /\ pc \in {"classify_done", "classify_skipped"}
    /\ RenderPage
    /\ UNCHANGED <<logs, scrape_locals, classify_locals, returned,
                   oracleCalls, run_start, run_calls>>

DriverNext ==
    \/ DriverScrape
    \/ DriverClassify
    \/ DriverSkipClassify
    \/ SkipLowScore
    \/ CallOracle
    \/ HandleResult
    \/ ClassifyFinish
    \/ DriverRender

SpecDriver == Init /\ [][DriverNext]_vars

---------------------------------------------------------------------------
(***************************************************************************)
(* scraper.py: deduplicate_posts applied on its own to a list of fetched   *)
(* posts.                                                                  *)
(***************************************************************************)
DedupInputs == SeqsUpTo(Posts, MaxInput)

InitDedup == \E posts \in DedupInputs : InitWith(<<>>, <<>>, <<>>, posts)

Deduplicate ==
    /\ pc = "idle"
    /\ returned' = deduplicate_posts(all_posts)
    /\ pc' = "dedup_done"
    /\ UNCHANGED <<logs, page, scrape_locals, classify_locals, oracleCalls,
                   run_start, run_calls>>

SpecDedup == InitDedup /\ [][Deduplicate]_vars

---------------------------------------------------------------------------
(***************************************************************************)
(* The three stages started on log files that hold damaged lines among     *)
(* their records; only the part of each stage that reads the logs runs.    *)
(***************************************************************************)
ReaderPosts == {[url |-> u, score |-> DefaultMinScore] : u \in URLs}

ReaderRecords ==
    {Merge(p, Object("true", "number", 80, NoUrl)) : p \in ReaderPosts}

ReaderLogs(records) ==
    SeqsUpTo(records \cup {Unparseable, NonObject}, MaxBatch)

InitReaders ==
    \E r \in ReaderLogs(ReaderPosts), c, a \in ReaderLogs(ReaderRecords) :
        InitWith(r, c, a, <<>>)

ReadersNext ==
    \/ ScrapeStart
    \/ ClassifyStart
    \/ Render

SpecReaders == InitReaders /\ [][ReadersNext]_vars

---------------------------------------------------------------------------
(***************************************************************************)
(* generate_html.py started on an accepted log whose lines carry the       *)
(* "curated" key or not.                                                   *)
(***************************************************************************)
Moments ==
    LET plain == {Merge([url |-> u, score |-> DefaultMinScore],
                        Object("true", "number", c, NoUrl)) :
                     u \in URLs, c \in {60, 80}}
    IN plain \cup {[url |-> m.url, score |-> m.score,
                    is_valid |-> m.is_valid, conf_type |-> m.conf_type,
                    confidence |-> m.confidence, curated |-> b] :
                      m \in plain, b \in BOOLEAN}

InitSort == \E a \in SeqsUpTo(Moments, MaxInput) : InitWith(<<>>, <<>>, a, <<>>)

SpecSort == InitSort /\ [][Render]_vars

---------------------------------------------------------------------------
(***************************************************************************)
(* generate_html.py started on an accepted log whose moments carry the     *)
(* fields the page is built from: as the classifier's prompt asks for      *)
(* them, left out, repeated, of a value outside the vocabulary, or null.   *)
(***************************************************************************)
Accepted(u) ==
    Merge([url |-> u, score |-> DefaultMinScore],
          Object("true", "number", 80, NoUrl))

PageMoments ==
    {Accepted(1) @@ [layer |-> Str("wow"), ai_tool |-> Str("Claude"),
                     quote |-> Str("q"),
                     realization |-> Text({"trust", "time"}),
                     growth_levers |-> List(<<"activation", "retention">>)],
     Accepted(2) @@ [layer |-> Str("how"), ai_tool |-> Str("ChatGPT"),
                     quote |-> Str("q"),
                     realization |-> Text({"conversation", "dialogue",
                                           "partner", "thinking", "time",
                                           "pdf"}),
                     growth_levers |-> List(<<"retention">>)],
     Accepted(2) @@ [layer |-> Str("wow"), ai_tool |-> Str("Claude"),
                     quote |-> Str(""), realization |-> Text({}),
                     growth_levers |-> List(<<>>)],
     Accepted(1),
     Accepted(1) @@ [layer |-> Str("other"), realization |-> Text({"pdf"}),
                     growth_levers |-> List(<<"virality">>)],
     Accepted(1) @@ [layer |-> Str("what"),
                     growth_levers |-> List(<<"b2b", "b2b">>)],
     Accepted(2) @@ [layer |-> Null],
     Accepted(2) @@ [quote |-> Null],
     Accepted(2) @@ [realization |-> Null],
     Accepted(2) @@ [growth_levers |-> Null]}

InitPage ==
    \E a \in SeqsUpTo(PageMoments, MaxInput) : InitWith(<<>>, <<>>, a, <<>>)

SpecPage == InitPage /\ [][Render]_vars

---------------------------------------------------------------------------
(***************************************************************************)
(* classify.py: the parsing part of classify_post applied on its own to    *)
(* the text of a response that is valid JSON, bare or in a fenced block.   *)
(***************************************************************************)
\* The texts of JSON objects: one without, the others with a string value
\* that holds up to MaxBatch pieces.
JsonTexts ==
    {<<"obj">>}
    \cup {<<"open">> \o filling \o <<"close">> :
             filling \in SeqsUpTo({"fence", "json", "ws"}, MaxBatch)}

Pads == {<<>>, <<"ws">>}

\* The JSON text as it is, or between two fences, with or without the
\* language tag after the first, with or without line ends inside the block.
Wrappings(json) ==
    {json}
    \cup {<<"fence">> \o tag \o before \o json \o after \o <<"fence">> :
             tag \in {<<>>, <<"json">>}, before \in Pads, after \in Pads}

ResponseTexts ==
    UNION {{left \o text \o right :
               left \in Pads, right \in Pads, text \in Wrappings(json)} :
             json \in JsonTexts}

InitParse ==
    \E text \in ResponseTexts : InitAll(<<>>, <<>>, <<>>, <<>>, text)

ParseResponse ==
    /\ pc = "idle"
    /\ returned' = parse_response(response)
    /\ pc' = "parsed"
    /\ UNCHANGED <<logs, page, scrape_locals, classify_locals, oracleCalls,
                   run_start, run_calls>>

SpecParse == InitParse /\ [][ParseResponse]_vars

---------------------------------------------------------------------------
(***************************************************************************)
(* Properties.                                                             *)
(***************************************************************************)
NoDupUrls(s) ==
    \A a, b \in DOMAIN s : a # b => s[a].url # s[b].url

\* The records the current (or last) classify_all run appended.
RunClassified == Suffix(classified, run_start.classified)

RunAccepted == Suffix(accepted, run_start.accepted)

\* The acceptance criterion as the specification words it.
MeetsCriteria(rec) ==
    /\ rec.is_valid = "true"
    /\ rec.conf_type = "number"
    /\ rec.confidence >= DefaultMinConfidence

\* C1: after any sequence of scrape_all runs, whatever the fetches return,
\* the raw log holds at most one record per url (so no run appends a url
\* twice, or a url the log already held).
C1_OneRawRecordPerUrl == NoDupUrls(raw)

\* A run has completed on a raw log of two records, having fetched the same
\* url twice and a url the log already held.
C1_Witness ==
    /\ pc = "scrape_done"
    /\ Len(raw) >= 2
    /\ \E a, b \in DOMAIN all_posts : a < b /\ all_posts[a].url = all_posts[b].url
    /\ \E a \in DOMAIN all_posts : all_posts[a].url \in existing_urls

C3_AcceptedHasClassified ==
    \A a \in DOMAIN accepted :
        \E c \in DOMAIN classified :
            /\ classified[c].url = accepted[a].url
            /\ MeetsCriteria(classified[c])

\* Between two steps of a run: a moment of an earlier run is in the accepted
\* log, and a moment of this run is in the classified log and waits in
\* valid_moments.
C3_Witness ==
    /\ pc = "loop"
    /\ accepted # <<>>
    /\ valid_moments # <<>>
    /\ RunClassified # <<>>

\* C4 as claimed: whenever the oracle's response parses to a JSON object,
\* with fields or without, handling it appends one record to the
\* classified log.
C4_ParsedObjectAlwaysRecorded ==
    [][(pc = "handle" /\ response.kind \in {"object", "empty_object"})
         => Len(classified') = Len(classified) + 1]_vars

\* C5: when a run completes, the records it appended to the accepted log
\* are the records it appended to the classified log that meet the
\* criteria, in that order, and they are what it returns.
C5_AcceptedIffCriteria ==
    pc = "classify_done" =>
        /\ RunAccepted = SelectSeq(RunClassified, MeetsCriteria)
        /\ returned = RunAccepted

\* A completed run that classified two posts: it accepted and returned one
\* and rejected the other for its flag.
C5_Witness ==
    /\ pc = "classify_done"
    /\ Len(returned) = 1
    /\ Len(RunClassified) = 2
    /\ \E k \in DOMAIN RunClassified : RunClassified[k].is_valid = "false"

\* C6: the step that meets a post with score < min_score makes no oracle
\* request, writes nothing, keeps nothing for the accepted log, and moves
\* on to the next post.
C6_LowScoreSkipped ==
    [][(/\ pc = "loop"
        /\ i <= Len(posts_to_classify)
        /\ posts_to_classify[i].score < DefaultMinScore)
         => /\ oracleCalls' = oracleCalls
            /\ run_calls' = run_calls
            /\ logs' = logs
            /\ valid_moments' = valid_moments
            /\ pc' = "loop"
            /\ i' = i + 1]_vars

\* A run has skipped a low-score first post and stands at the next one.
C6_Witness ==
    /\ pc = "loop"
    /\ i = 2
    /\ Len(posts_to_classify) >= 2
    /\ posts_to_classify[1].score < DefaultMinScore
    /\ run_calls = <<>>

\* C7: handling a response that is not valid JSON writes to no log, keeps
\* nothing for the accepted log, makes no further request for the item and
\* moves on to the next post of the same run.
C7_InvalidJsonSkipped ==
    [][(pc = "handle" /\ response.kind = "invalid_json")
         => /\ logs' = logs
            /\ valid_moments' = valid_moments
            /\ oracleCalls' = oracleCalls
            /\ run_calls' = run_calls
            /\ posts_to_classify' = posts_to_classify
            /\ pc' = "loop"
            /\ i' = i + 1]_vars

\* The run got invalid JSON for one post, wrote nothing for it, and stands
\* at the next one.
C7_Witness ==
    /\ pc = "loop"
    /\ response.kind = "invalid_json"
    /\ 2 <= i /\ i <= Len(posts_to_classify)
    /\ run_calls # <<>>
    /\ run_calls[Len(run_calls)] = posts_to_classify[i - 1].url
    /\ RunClassified = <<>>

\* C8 as claimed: no oracle outcome ends a run before its end.
C8_NoOracleOutcomeIsFatal == pc # "crashed"

\* C9: every step leaves each of the three logs a prefix of what it
\* becomes.
C9_AppendOnly ==
    [][/\ IsPrefix(raw, raw')
       /\ IsPrefix(classified, classified')
       /\ IsPrefix(accepted, accepted')]_vars

\* All three stages have written: the logs are non-empty, two runs have
\* appended to the classified log, and the page shows the accepted log.
C9_Witness ==
    /\ pc = "render_done"
    /\ Len(raw) >= 2
    /\ Len(classified) >= 2
    /\ accepted # <<>>
    /\ Len(html) = Len(accepted)

\* C10 as claimed: the accepted log holds at most one record per url.
C10_OneAcceptedRecordPerUrl == NoDupUrls(accepted)

\* The posts a classify_all run starting on a classified log of n records
\* has to submit: score at the floor or above, url in none of the records.
Stragglers(n) ==
    {k \in DOMAIN raw :
        /\ raw[k].score >= DefaultMinScore
        /\ raw[k].url \notin UrlsOf(SubSeq(classified, 1, n))}

SubmittedThisRun(u) == \E k \in DOMAIN run_calls : run_calls[k] = u

\* C11 as claimed: when an invocation of main() is past its classify stage,
\* every raw-log post that had no record in the classified log and has
\* score >= min_score was submitted to the oracle in that invocation, also
\* when scrape_all found no new posts.
C11_DriverSubmitsStragglers ==
    /\ pc = "classify_done" =>
          \A k \in Stragglers(run_start.classified) :
              SubmittedThisRun(raw[k].url)
    /\ pc = "classify_skipped" =>
          \A k \in Stragglers(Len(classified)) : SubmittedThisRun(raw[k].url)

\* The posts of the fetches of fetch_log that ended as in `oks`, in order.
RECURSIVE FetchedBy(_, _)
FetchedBy(log, oks) ==
    IF log = <<>> THEN <<>>
    ELSE (IF log[1].ok \in oks THEN log[1].posts ELSE <<>>)
         \o FetchedBy(Tail(log), oks)

\* The records the run appended to the raw log.
RunRaw == Suffix(raw, Len(raw) - Len(returned))

\* `out` holds, in first-seen order, the first record of every url of `inp`
\* that is not in `known`, and nothing else.
FirstIndex(inp, u) == CHOOSE k \in DOMAIN inp :
    inp[k].url = u /\ \A j \in 1..(k - 1) : inp[j].url # u

IsNewFirstSeen(out, inp, known) ==
    /\ UrlsOf(out) = UrlsOf(inp) \ known
    /\ \A k \in DOMAIN out : out[k] = inp[FirstIndex(inp, out[k].url)]
    /\ \A j, k \in DOMAIN out :
          j < k => FirstIndex(inp, out[j].url) < FirstIndex(inp, out[k].url)

C13_DedupKeepsFirstPerUrl ==
    pc = "dedup_done" =>
        /\ NoDupUrls(returned)
        /\ IsNewFirstSeen(returned, all_posts, {})

\* Two different records of one url around a record of another url.
C13_Witness ==
    /\ pc = "dedup_done"
    /\ Len(all_posts) = 3
    /\ all_posts[1].url = all_posts[3].url
    /\ all_posts[1] # all_posts[3]
    /\ all_posts[2].url # all_posts[1].url
    /\ returned = SubSeq(all_posts, 1, 2)

\* The lines of a log that are the record of a JSON object.
WellFormed(log) == SelectSeq(log, LAMBDA l : "line" \notin DOMAIN l)

SameRecords(s, t) ==
    /\ Len(s) = Len(t)
    /\ \A r \in {s[k] : k \in DOMAIN s} :
          Cardinality({k \in DOMAIN s : s[k] = r})
              = Cardinality({k \in DOMAIN t : t[k] = r})

\* C14 as claimed: whatever lines the logs hold, unparseable text and JSON
\* values that are no object included, no reader fails, and
\* load_existing_urls, the two readers of classify_all and load_moments use
\* exactly the records of the well-formed lines.
C14_ReadersSkipCorruptLines ==
    /\ pc # "crashed"
    /\ pc = "fetch" => existing_urls = UrlsOf(WellFormed(raw))
    /\ pc = "loop" =>
          /\ classified_urls = UrlsOf(WellFormed(classified))
          /\ posts_to_classify = FilterNew(WellFormed(raw), classified_urls)
    /\ pc = "render_done" => SameRecords(html, WellFormed(accepted))

\* sub is what is left of full, in order, when some elements are removed.
RECURSIVE IsSubsequence(_, _)
IsSubsequence(sub, full) ==
    IF sub = <<>> THEN TRUE
    ELSE IF full = <<>> THEN FALSE
    ELSE IF Head(sub) = Head(full)
         THEN IsSubsequence(Tail(sub), Tail(full))
         ELSE IsSubsequence(sub, Tail(full))

\* rec is a record classify_all writes for post.
RecordOf(rec, post) == \E r \in OracleObjects : rec = Merge(post, r)

\* Each record of recs is the record of a different post of posts, and the
\* records come in the order of their posts.
RECURSIVE InOrderOf(_, _)
InOrderOf(recs, posts) ==
    IF recs = <<>> THEN TRUE
    ELSE IF posts = <<>> THEN FALSE
    ELSE IF RecordOf(Head(recs), Head(posts))
         THEN InOrderOf(Tail(recs), Tail(posts))
         ELSE InOrderOf(recs, Tail(posts))

\* C15: within one classify_all run the posts are processed in raw-log
\* order, the records the run appends to the classified log and to the
\* accepted log come in the order of their posts in the raw log, and the
\* accepted records are an order-preserving subsequence of the run's
\* classified records.
C15_AppendedInProcessingOrder ==
    /\ pc \in {"loop", "handle"} =>
          /\ IsSubsequence(posts_to_classify, raw)
          /\ InOrderOf(RunClassified, SubSeq(posts_to_classify, 1, i - 1))
          /\ IsSubsequence(valid_moments, RunClassified)
          /\ RunAccepted = <<>>
    /\ pc = "classify_done" =>
          /\ InOrderOf(RunClassified, raw)
          /\ InOrderOf(RunAccepted, raw)
          /\ IsSubsequence(RunAccepted, RunClassified)

\* A run that recorded two posts and accepted the second only.
C15_Witness ==
    /\ pc = "classify_done"
    /\ Len(RunClassified) = 2
    /\ RunClassified[1] # RunClassified[2]
    /\ RunAccepted = <<RunClassified[2]>>

\* C16: in a classify_all run, every oracle request but the run's first is
\* made after the fixed delay has been executed since the request before
\* it, whether that one failed, was recorded or was followed by skipped
\* posts.
C16_DelayBetweenOracleCalls ==
    [][(Len(run_calls') > Len(run_calls) /\ run_calls # <<>>) => slept]_vars

\* The second request of a run has just been made.
C16_Witness ==
    /\ pc = "handle"
    /\ Len(run_calls) = 2
    /\ ~slept

\* The moments of s with the given sort key, in the order of s.
WithKey(s, key) == SelectSeq(s, LAMBDA m : SortKey(m) = key)

RECURSIVE Total(_)
Total(counter) ==
    IF DOMAIN counter = {} THEN 0
    ELSE LET x == CHOOSE y \in DOMAIN counter : TRUE
         IN counter[x] + Total([y \in DOMAIN counter \ {x} |-> counter[y]])

CountIn(counter, x) == IF x \in DOMAIN counter THEN counter[x] ELSE 0

LeversOf(m) ==
    LET l == Get(m, "growth_levers", List(<<>>)).v
    IN {l[k] : k \in DOMAIN l}

AllLevers == UNION {LeversOf(m) : m \in PageMoments \ {x \in PageMoments :
                        Get(x, "growth_levers", List(<<>>)) = Null}}

PhraseSet == {Phrases[k] : k \in DOMAIN Phrases}

\* The moments of the page in whose realization phrase q occurs.
WithPhrase(q) ==
    {k \in DOMAIN html : q \in Get(html[k], "realization", Text({})).v}

\* What analyze_patterns returns but for the lever counts: the total is the
\* number of moments, the layer counts and the tool counts each add up to
\* it, and the patterns are at most TopPatterns phrases with their counts,
\* none less frequent than a phrase left out.
AnalysisButLevers ==
    /\ analysis.total = Len(html)
    /\ Total(analysis.layers) = analysis.total
    /\ Total(analysis.tools) = analysis.total
    /\ Len(analysis.patterns) <= TopPatterns
    /\ \A j \in DOMAIN analysis.patterns :
          /\ analysis.patterns[j][1] \in PhraseSet
          /\ analysis.patterns[j][2] =
                Cardinality(WithPhrase(analysis.patterns[j][1]))
          /\ analysis.patterns[j][2] > 0
          /\ \A k \in DOMAIN analysis.patterns :
                j < k =>
                  /\ analysis.patterns[j][1] # analysis.patterns[k][1]
                  /\ analysis.patterns[j][2] >= analysis.patterns[k][2]
    /\ \A q \in PhraseSet :
          (\A j \in DOMAIN analysis.patterns : analysis.patterns[j][1] # q)
            => /\ Len(analysis.patterns) = TopPatterns
                  \/ WithPhrase(q) = {}
               /\ \A j \in DOMAIN analysis.patterns :
                     analysis.patterns[j][2] >= Cardinality(WithPhrase(q))

C19_RenderingNeverRaises ==
    /\ pc \in {"idle", "render_done"}
    /\ (pc = "render_done" /\ accepted = <<>>) =>
          /\ analysis.total = 0
          /\ analysis.patterns = <<>>
          /\ DOMAIN analysis.layers = {}
          /\ DOMAIN analysis.levers = {}
          /\ DOMAIN analysis.tools = {}

\* C20: a scrape_all run changes the raw log only; no step of a
\* classify_all run changes the raw log or the page; loading the moments
\* and generating the page change none of the three logs.
C20_DataFlowsForward ==
    [][/\ pc' = "scrape_done" =>
             /\ classified' = classified
             /\ accepted' = accepted
             /\ page' = page
       /\ (pc \in {"loop", "handle"} \/ pc' \in {"loop", "classify_done"}) =>
             /\ raw' = raw
             /\ page' = page
       /\ pc' = "render_done" => logs' = logs]_vars

\* Every stage has run and written: posts collected, records classified,
\* moments accepted, a page rendered from them.
C20_Witness ==
    /\ pc = "render_done"
    /\ raw # <<>>
    /\ Len(classified) >= 2
    /\ accepted # <<>>
    /\ Len(html) = Len(accepted)
    /\ analysis.total = Len(accepted)

\* The JSON text of a response: the response itself, or, when it starts
\* with a fence, what stands between that fence, with its language tag, and
\* the fence at its end.
UnwrappedJson(text) ==
    LET t == strip(text)
    IN IF Head(t) # "fence" THEN t
       ELSE LET body == SubSeq(t, 2, Len(t) - 1)
            IN strip(IF body # <<>> /\ Head(body) = "json"
                     THEN Tail(body) ELSE body)

\* C21 as claimed: for every response that is valid JSON, bare or in a
\* fenced block with or without the json tag, classify_post's
\* unwrap-then-parse returns the object that parsing the JSON text itself
\* gives, also when a string value of the JSON holds a fence.
C21_UnwrapThenParseRecovers ==
    pc = "parsed" => returned = json_loads(UnwrappedJson(response))

\* C22 as claimed: once a classify_all run has completed, whatever runs
\* were stopped before it, every record of the classified log that meets
\* the acceptance criteria has a record with its url in the accepted log.
C22_AcceptedSurviveInterruption ==
    pc = "classify_done" =>
        \A c \in DOMAIN classified :
            MeetsCriteria(classified[c]) =>
                \E a \in DOMAIN accepted :
                    accepted[a].url = classified[c].url

\* C23 as claimed: whatever answer the oracle gives, the record that a step
\* of the classify loop appends to the classified log carries the url of
\* the raw-log item the answer was asked for.
C23_RecordCarriesItemUrl ==
    [][(pc = "handle" /\ Len(classified') = Len(classified) + 1) =>
           classified'[Len(classified')].url = posts_to_classify[i].url]_vars

====
